---- MODULE Spec2Model ----
(***************************************************************************)
(* Model of the accessibility analyzer's core (src/app/api/analyze/route.ts): *)
(* the prioritized crawler crawlSite, the POST handler's fallback and       *)
(* aggregation, and the helpers they call.                                  *)
(*                                                                          *)
(* JavaScript runs one callback at a time, so every action below is the     *)
(* synchronous stretch of code between two awaits.  Time passes and fetch   *)
(* tasks settle only while the orchestrating path is suspended at an await. *)
(***************************************************************************)
EXTENDS Integers, Sequences, FiniteSets, TLC

(***************************************************************************)
(* Bounds of the model (not program constants).                             *)
(***************************************************************************)
SmallCap == 2          \* a small page cap passed to crawlSite, beside the default
MaxRequests == 2       \* number of POST requests the server receives

(***************************************************************************)
(* Program constants.                                                       *)
(***************************************************************************)
DefaultMaxPages == 50        \* crawlSite(baseUrl, maxPages = 50, ...)
TotalTimeoutMs == 12000      \* crawlSite(..., totalTimeoutMs = 12000)
SoftCutoffMs == (TotalTimeoutMs * 8) \div 10   \* totalTimeoutMs * 0.8
DrainMinMs == 500            \* remainingTimeout > 500
DrainSlackMs == 100          \* setTimeout(resolve, remainingTimeout - 100)
MaxActive == 5               \* activePromises.length < 5
ScoreCutoff == 0 - 3         \* score >= -3
WorstPagesShown == 5         \* worstByAlt.slice(0, 5)
CACHE_TTL == 10 * 60 * 1000  \* 10 minutes

\* a variant with one slot too many
LimiterK_6 == 5 + 1
LimiterK == 5                \* createLimiter(5)

(***************************************************************************)
(* URLs.  A URL is the record of the parts the code looks at: scheme,       *)
(* hostname, non-empty path segments, search ("" or "?..."), and the        *)
(* fragment as serialised ("" or "#...").  Segments come from a fixed       *)
(* vocabulary; substring tests of the code are lookups over it.             *)
(***************************************************************************)
Url(h, s, q, f) == [scheme |-> "https", host |-> h, segs |-> s, search |-> q, hash |-> f]

Root == Url("site", <<>>, "", "")
uAbout == Url("site", <<"about">>, "", "")
uContact == Url("site", <<"contact">>, "", "")
uNews == Url("site", <<"news">>, "", "")
uNewsA == Url("site", <<"news", "a">>, "", "")
uHelpForm == Url("site", <<"help", "form">>, "", "")
uTeam == Url("site", <<"team">>, "", "")
uJobs == Url("site", <<"jobs">>, "", "")
uBlog == Url("site", <<"blog">>, "", "")
uPdf == Url("site", <<"docs", "report.pdf">>, "", "")
uExt == Url("other", <<"about">>, "", "")
uQuery == Url("site", <<"search">>, "?q=1", "")
uDeep == Url("site", <<"a", "b", "c", "d">>, "", "")
uDeepQuery == Url("site", <<"a", "b", "c", "d", "e">>, "?x=1", "")
uLogin == Url("site", <<"login">>, "", "")
uFrag == Url("site", <<"about">>, "", "#top")
uMailto == [scheme |-> "mailto", host |-> "", segs |-> <<"info@site">>, search |-> "", hash |-> ""]

\* segments of the vocabulary that end in one of the listed file extensions
FileExtSegs == {"report.pdf", "logo.png", "data.xlsx"}
\* segments of the vocabulary that contain a high-value keyword
KeywordSegs == {"contact", "help", "form", "login", "search", "apply", "payments", "register"}
\* segments of the vocabulary that start with logout, admin, wp-admin, login or signin
SkipSegs == {"login", "logout", "admin", "wp-admin", "signin"}

\* pathname.endsWith(ext): only the last segment can carry the extension
HasFileExt(u) == Len(u.segs) > 0 /\ u.segs[Len(u.segs)] \in FileExtSegs

\* new URL(url) throws for a string that is no absolute URL, such as a
\* reference that was not resolved (scheme ""); the crawl resolves links by
\* new URL(href, currentUrl) before scoring.  pathname never holds a "#", so
\* the test pathname.endsWith("#") is false for every URL
scoreUrl(u, baseUrl) ==
  IF u.scheme = "" THEN 0 - 10
  ELSE IF HasFileExt(u) THEN 0 - 5
  ELSE IF u.segs = <<>> /\ u.scheme = "https" /\ u.search = "" THEN 0
  ELSE IF u.scheme = "mailto" THEN 0 - 3
  ELSE (IF \E i \in 1..Len(u.segs) : u.segs[i] \in KeywordSegs THEN 3 ELSE 0)
     + (IF Len(u.segs) >= 2 /\ Len(u.segs) <= 4 THEN 2 ELSE 0)
     - (IF Len(u.segs) > 6 THEN 1 ELSE 0)
     - (IF u.search # "" THEN 1 ELSE 0)

\* a variant without the query-string and depth guards
shouldCrawlUrl_lax(u, baseUrl) ==
  /\ u.host = baseUrl.host
  /\ u.hash = ""
  /\ ~ \E i \in 1..Len(u.segs) : u.segs[i] \in SkipSegs
  /\ ~ HasFileExt(u)

\* a variant without the hostname guard
shouldCrawlUrl_anyhost(u, baseUrl) ==
  /\ u.search = ""
  /\ u.hash = ""
  /\ ~ \E i \in 1..Len(u.segs) : u.segs[i] \in SkipSegs
  /\ Len(u.segs) <= 3
  /\ ~ HasFileExt(u)

shouldCrawlUrl(u, baseUrl) ==
  /\ u.host = baseUrl.host
  /\ u.search = ""
  /\ u.hash = ""
  /\ ~ \E i \in 1..Len(u.segs) : u.segs[i] \in SkipSegs
  /\ Len(u.segs) <= 3
  /\ ~ HasFileExt(u)

(***************************************************************************)
(* Page markup.  A page is the record of what the code reads from it: the   *)
(* hrefs of its <a href> elements in document order, the alt attribute of   *)
(* each <img> (NoAttr when the attribute is absent, "" when it is empty),   *)
(* its form controls and its <form> count.  An href is an absolute URL or a *)
(* path-absolute reference (no scheme, no host).                            *)
(***************************************************************************)
NoAttr == "<absent>"

Rel(s) == [scheme |-> "", host |-> "", segs |-> s, search |-> "", hash |-> ""]

\* new URL(href, base)
Resolve(href, base) ==
  IF href.scheme = "" THEN [href EXCEPT !.scheme = base.scheme, !.host = base.host]
  ELSE href

\* a control: its tag, the attributes the analysis reads (aria-labelledby as
\* the list of ids it names), whether a <label> is among its ancestors, and its
\* placeholder attribute, which the analysis never reads
Ctl(type, aria, title, wrapped) ==
  [tag |-> "input", type |-> type, ariaLabel |-> aria, title |-> title,
   labelledby |-> <<>>, id |-> NoAttr, wrapped |-> wrapped, placeholder |-> NoAttr]

EmptyPage == [links |-> <<>>, imgs |-> <<>>, controls |-> <<>>, forms |-> 0,
              ids |-> {}, labelFor |-> {}]

SiteIds == {"small", "wide"}

\* The markup served at URL u by site s.
Page(s, u) ==
  CASE s = "small" /\ u = Root ->
         [EmptyPage EXCEPT !.links = <<Rel(<<"about">>), uExt, Rel(<<"contact">>), uPdf,
                                       uAbout, Rel(<<"news", "a">>), uQuery, uFrag>>,
                           !.imgs = <<NoAttr, "", "logo">>]
    [] s = "small" /\ u = uAbout ->
         [EmptyPage EXCEPT !.links = <<Rel(<<>>), Rel(<<"contact">>), Rel(<<"help", "form">>), uLogin>>,
                           !.imgs = <<NoAttr, NoAttr>>]
    [] s = "small" /\ u = uContact ->
         [EmptyPage EXCEPT !.links = <<Rel(<<"about">>), uMailto>>,
                           !.imgs = <<"">>,
                           !.controls = <<Ctl("text", NoAttr, NoAttr, FALSE),
                                          Ctl("email", "Email", NoAttr, FALSE),
                                          Ctl("submit", NoAttr, NoAttr, FALSE)>>,
                           !.forms = 1]
    [] s = "small" /\ u = uNewsA ->
         [EmptyPage EXCEPT !.links = <<uDeep, uDeepQuery, uExt>>, !.imgs = <<NoAttr, "photo">>]
    [] s = "small" /\ u = uHelpForm ->
         [EmptyPage EXCEPT !.controls = <<Ctl("text", NoAttr, NoAttr, TRUE),
                                          Ctl("text", "", NoAttr, FALSE)>>,
                           !.forms = 1]
    [] s = "wide" /\ u = Root ->
         [EmptyPage EXCEPT !.links = <<uAbout, uContact, uNews, uTeam, uJobs, uBlog, uNewsA>>,
                           !.imgs = <<NoAttr>>]
    [] s = "wide" /\ u = uContact ->
         [EmptyPage EXCEPT !.imgs = <<NoAttr, "">>]
    \* the "audit" site is handed to the analysis directly and is never crawled
    [] s = "audit" /\ u = Root ->
         [EmptyPage EXCEPT !.links = <<uAbout, uExt>>, !.imgs = <<NoAttr>>]
    [] s = "audit" /\ u = uAbout ->
         [EmptyPage EXCEPT !.links = <<Rel(<<>>)>>, !.imgs = <<NoAttr, NoAttr>>]
    [] s = "audit" /\ u = uContact ->
         [EmptyPage EXCEPT !.imgs = <<NoAttr>>, !.forms = 1,
                           !.controls = <<Ctl("text", NoAttr, NoAttr, FALSE),
                                          Ctl("email", NoAttr, NoAttr, FALSE)>>]
    [] s = "audit" /\ u = uNews ->
         [EmptyPage EXCEPT !.links = <<uNewsA>>, !.imgs = <<NoAttr, "chart">>]
    [] s = "audit" /\ u = uNewsA ->
         [EmptyPage EXCEPT !.imgs = <<NoAttr, NoAttr, NoAttr>>]
    [] s = "audit" /\ u = uTeam ->
         [EmptyPage EXCEPT !.imgs = <<NoAttr>>, !.forms = 1,
                           !.controls = <<Ctl("text", NoAttr, NoAttr, FALSE)>>]
    [] s = "audit" /\ u = uJobs ->
         [EmptyPage EXCEPT !.imgs = <<NoAttr, NoAttr>>]
    [] s = "audit" /\ u = uBlog ->
         [EmptyPage EXCEPT !.imgs = <<"">>]
    [] s = "audit" /\ u = uHelpForm ->
         [EmptyPage EXCEPT !.links = <<uLogin, uPdf>>, !.imgs = <<NoAttr, NoAttr>>, !.forms = 1,
                           !.ids = {"form:name"},
                           !.controls = <<Ctl("text", NoAttr, NoAttr, FALSE),
                                          [Ctl("text", NoAttr, NoAttr, FALSE)
                                             EXCEPT !.labelledby = <<"form:name">>]>>]
    [] OTHER -> EmptyPage

\* every URL that can be dispatched on some site
Urls == {Root, uAbout, uContact, uNews, uNewsA, uHelpForm, uTeam, uJobs, uBlog}

\* The outcomes a fetch of u can have: fetchHtml returns the markup, or throws
\* (non-2xx status, non-HTML content type, abort after the per-request timeout).
\* On the "wide" site only the root and two of its pages ever answer with HTML.
FetchOutcomes(s, u) ==
  IF s = "wide" /\ u \notin {Root, uContact, uNewsA} THEN {"failed"} ELSE {"ok", "failed"}

(***************************************************************************)
(* The request's url.  An input string is the sequence of its pieces: a     *)
(* scheme with its colon, "//", a host, "/".  <<>> is a missing or empty    *)
(* url.                                                                     *)
(***************************************************************************)
RawInputs ==
  {<<>>, <<"site">>, <<"https:", "//", "site", "/">>, <<"http:", "//", "site">>,
   <<"ftp:", "//", "site">>, <<"a b">>}

StartsWith(s, prefix) == Len(s) >= Len(prefix) /\ SubSeq(s, 1, Len(prefix)) = prefix

SlashPieces == {"/", "//"}

\* the pieces of s before the first slash, and those after it
RECURSIVE UpToSlash(_)
UpToSlash(s) ==
  IF s = <<>> \/ Head(s) \in SlashPieces THEN <<>> ELSE <<Head(s)>> \o UpToSlash(Tail(s))

RECURSIVE NonSlash(_)
NonSlash(s) ==
  IF s = <<>> THEN <<>>
  ELSE (IF Head(s) \in SlashPieces THEN <<>> ELSE <<Head(s)>>) \o NonSlash(Tail(s))

InvalidUrl == [scheme |-> "invalid", host |-> "", segs |-> <<>>, search |-> "", hash |-> ""]

\* new URL(str) for a string that starts with "http://" or "https://": the
\* authority runs up to the next slash.  "site" is a host; "ftp:" is the host
\* "ftp" followed by an empty port; a host with a space, or no host at all,
\* makes the constructor throw.
ParseUrl(str) ==
  LET authority == UpToSlash(SubSeq(str, 3, Len(str)))
      path == NonSlash(SubSeq(str, 3 + Len(authority), Len(str)))
      scheme == IF str[1] = "http:" THEN "http" ELSE "https"
  IN IF authority = <<"site">> THEN [Url("site", path, "", "") EXCEPT !.scheme = scheme]
     ELSE IF authority = <<"ftp:">> THEN [Url("ftp", path, "", "") EXCEPT !.scheme = scheme]
     ELSE InvalidUrl

\* the result is the parsed URL (u.toString()), or InvalidUrl where the code throws
normalizeUrl(input) ==
  LET withProto == IF StartsWith(input, <<"http:", "//">>) \/ StartsWith(input, <<"https:", "//">>)
                   THEN input
                   ELSE <<"https:", "//">> \o input
      u == ParseUrl(withProto)
  IN IF u = InvalidUrl THEN InvalidUrl
     ELSE IF u.scheme # "http" /\ u.scheme # "https" THEN InvalidUrl
     ELSE u

\* the keys the cache and the fingerprint store can get
NormUrls == {normalizeUrl(i) : i \in RawInputs \ {<<>>}} \ {InvalidUrl}

Absent == [absent |-> TRUE]      \* undefined / no entry

RequestIds == 1..MaxRequests

(***************************************************************************)
(* State.                                                                   *)
(***************************************************************************)
VARIABLES
  site,             \* the site behind the normalized URL (input)
  maxPages,         \* crawlSite's maxPages parameter (input)
  now,              \* Date.now() - startTime
  pc,               \* position of the orchestrating path (crawlSite, then POST)
  toVisit,          \* the frontier: sequence of [url, score, seq]
  visited,          \* the visited set
  scannedPages,     \* URLs dequeued for fetching, in dispatch order
  htmlPages,        \* fetched markups in completion order, each named by the URL it came from
  activePromises,   \* the orchestrator's in-flight list
  task,             \* per URL: "none", "queued", "running", "ok", "failed"
  limiterQueue,     \* tasks waiting inside the limiter
  nextSeq,          \* number of frontier pushes so far (stamps entries with push order)
  outstanding,      \* tasks not yet settled when crawlSite returned
  returned,         \* htmlPages.length when crawlSite returned (-1 before)
  fallbacks,        \* number of fallback fetches issued
  fallbackOutcome,  \* "none", "pending", "ok", "failed"
  response,         \* what POST returned
  arg,              \* the argument of a helper called on its own
  ret,              \* what that call returned
  clock,            \* Date.now() of the server process
  cache,            \* the response cache: per normalized URL an entry or Absent
  fingerprintStore, \* per normalized URL a fingerprint or Absent
  reqs,             \* per request: its position in POST, its input, its response
  runs              \* the responses of the completed non-cached runs, in order

vars == <<site, maxPages, now, pc, toVisit, visited, scannedPages, htmlPages,
          activePromises, task, limiterQueue, nextSeq, outstanding, returned, fallbacks,
          fallbackOutcome, response, arg, ret, clock, cache, fingerprintStore,
          reqs, runs>>

Range(s) == {s[i] : i \in 1..Len(s)}

\* representatives of the intervals the code's time comparisons distinguish
DrainDeadline == TotalTimeoutMs - DrainSlackMs
TimePoints == {0, SoftCutoffMs + 1, TotalTimeoutMs - DrainMinMs, DrainDeadline,
               TotalTimeoutMs, TotalTimeoutMs + 1}

Settled(u) == task[u] \in {"ok", "failed"}
Running == {u \in Urls : task[u] = "running"}

(***************************************************************************)
(* The frontier.                                                            *)
(***************************************************************************)
\* a variant that puts an entry before the earlier entries of equal score
RECURSIVE InsertStable_ge(_, _)
InsertStable_ge(e, s) ==
  IF s = <<>> THEN <<e>>
  ELSE IF e.score - Head(s).score >= 0 THEN <<e>> \o s
  ELSE <<Head(s)>> \o InsertStable_ge(e, Tail(s))

\* a runs before b when the comparator (a, b) => b.score - a.score is <= 0
RECURSIVE InsertStable(_, _)
InsertStable(e, s) ==
  IF s = <<>> THEN <<e>>
  ELSE IF e.score - Head(s).score > 0 THEN <<e>> \o s
  ELSE <<Head(s)>> \o InsertStable(e, Tail(s))

\* toVisit.sort((a, b) => b.score - a.score): stable, descending by score
RECURSIVE SortFrontier(_)
SortFrontier(s) ==
  IF s = <<>> THEN <<>>
  ELSE InsertStable(s[Len(s)], SortFrontier(SubSeq(s, 1, Len(s) - 1)))

\* a variant that does not test the page cap
RECURSIVE Discovered_nocap(_, _, _, _)
Discovered_nocap(links, currentUrl, baseUrl, n) ==
  IF links = <<>> THEN <<>>
  ELSE LET urlStr == Resolve(Head(links), currentUrl)
           rest(k) == Discovered_nocap(Tail(links), currentUrl, baseUrl, k)
       IN IF ~ shouldCrawlUrl(urlStr, baseUrl) THEN rest(n)
          ELSE IF urlStr \notin visited /\ scoreUrl(urlStr, baseUrl) >= ScoreCutoff
               THEN <<[url |-> urlStr, score |-> scoreUrl(urlStr, baseUrl), seq |-> n]>> \o rest(n + 1)
               ELSE rest(n)

\* the links of a fetched page that the task pushes, in document order
RECURSIVE Discovered(_, _, _, _)
Discovered(links, currentUrl, baseUrl, n) ==
  IF links = <<>> THEN <<>>
  ELSE LET urlStr == Resolve(Head(links), currentUrl)
           rest(k) == Discovered(Tail(links), currentUrl, baseUrl, k)
       IN IF ~ shouldCrawlUrl(urlStr, baseUrl) THEN rest(n)
          ELSE IF urlStr \notin visited /\ Cardinality(visited) < maxPages
                  /\ scoreUrl(urlStr, baseUrl) >= ScoreCutoff
               THEN <<[url |-> urlStr, score |-> scoreUrl(urlStr, baseUrl), seq |-> n]>> \o rest(n + 1)
               ELSE rest(n)

(***************************************************************************)
(* The limiter (createLimiter of @/lib/limit): at most K tasks execute,     *)
(* further calls wait in FIFO order for a slot.                             *)
(***************************************************************************)
\* limit(fn): the task starts at once if a slot is free, else it is queued
LimiterSubmit(u) ==
  IF Cardinality(Running) < LimiterK
  THEN /\ task' = [task EXCEPT ![u] = "running"]
       /\ UNCHANGED limiterQueue
  ELSE /\ task' = [task EXCEPT ![u] = "queued"]
       /\ limiterQueue' = Append(limiterQueue, u)

\* a task that ends (either way) frees its slot; the longest-waiting call takes it
LimiterRelease(u, outcome) ==
  IF limiterQueue = <<>>
  THEN /\ task' = [task EXCEPT ![u] = outcome]
       /\ UNCHANGED limiterQueue
  ELSE /\ task' = [task EXCEPT ![u] = outcome, ![Head(limiterQueue)] = "running"]
       /\ limiterQueue' = Tail(limiterQueue)

(***************************************************************************)
(* Page analysis and aggregation (POST, after the crawl).                   *)
(***************************************************************************)
Present(v) == v # NoAttr /\ v # ""       \* a JavaScript-truthy attribute value

\* ids of the vocabulary that contain a dot
DottedIds == {"user.name"}

\* $(`#${escapeAttrValue(id)}`).length > 0: the id is pasted into a selector
\* unescaped but for quotes and backslashes, so "#user.name" selects an element
\* with id "user" and class "name", which no page of the vocabulary has
SelectById(page, id) == id \in page.ids /\ id \notin DottedIds

\* ids of the vocabulary that are no valid selector after "#": "#form:name" asks
\* for the pseudo-class :name, which the selector engine does not know, so $()
\* throws
ThrowingIds == {"form:name"}

\* estimateUnlabeledControls throws: some counted control without aria-label
\* and title names such an id in aria-labelledby, and ids.some() gets to it
EstimateThrows(page) ==
  \E k \in 1..Len(page.controls) :
    LET c == page.controls[k]
    IN /\ ~ (c.tag = "input" /\ (IF Present(c.type) THEN c.type ELSE "text")
                                  \in {"hidden", "submit", "button", "reset"})
       /\ ~ Present(c.ariaLabel) /\ ~ Present(c.title)
       /\ \E i \in 1..Len(c.labelledby) :
            /\ c.labelledby[i] \in ThrowingIds
            /\ \A j \in 1..(i - 1) : ~ SelectById(page, c.labelledby[j])

estimateUnlabeledControls(page) ==
  LET counted(c) == ~ (c.tag = "input"
                       /\ (IF Present(c.type) THEN c.type ELSE "text")
                            \in {"hidden", "submit", "button", "reset"})
      labeled(c) ==
        \/ Present(c.ariaLabel) \/ Present(c.title)
        \/ \E i \in 1..Len(c.labelledby) : SelectById(page, c.labelledby[i])
        \/ Present(c.id) /\ c.id \in page.labelFor
        \/ c.wrapped
      idx == 1..Len(page.controls)
  IN [total |-> Cardinality({i \in idx : counted(page.controls[i])}),
      unlabeled |-> Cardinality({i \in idx : counted(page.controls[i])
                                              /\ ~ labeled(page.controls[i])})]

\* a variant that tests !alt, so that alt="" counts as missing too
PageImgMissing_falsy(page) ==
  Cardinality({i \in 1..Len(page.imgs) : ~ Present(page.imgs[i])})

\* the page's images whose alt attribute does not exist at all (alt === undefined)
PageImgMissing(page) == Cardinality({i \in 1..Len(page.imgs) : page.imgs[i] = NoAttr})

\* pageMetricsMap.set / get-and-assign: an existing key keeps its position
MapPut(map, entry) ==
  IF \E i \in 1..Len(map) : map[i].url = entry.url
  THEN [i \in 1..Len(map) |-> IF map[i].url = entry.url THEN entry ELSE map[i]]
  ELSE Append(map, entry)

EmptyTotals ==
  [totalLinks |-> {}, totalImages |-> 0, totalImagesWithoutAlt |-> 0,
   totalFormControls |-> 0, totalUnlabeledControls |-> 0, totalForms |-> 0,
   pageMetricsMap |-> <<>>]

\* one iteration of the loop over htmlPages.  When estimateUnlabeledControls
\* throws, the catch ends the iteration: the links and the forms of the page
\* have been added by then, nothing else has
AnalysePage(acc, page, pageUrl, normalized) ==
  LET est == estimateUnlabeledControls(page)
  IN IF EstimateThrows(page)
     THEN [acc EXCEPT !.totalLinks = acc.totalLinks
                        \cup {Resolve(page.links[k], normalized) : k \in 1..Len(page.links)},
                      !.totalForms = acc.totalForms + page.forms]
     ELSE
     [totalLinks |-> acc.totalLinks
                       \cup {Resolve(page.links[k], normalized) : k \in 1..Len(page.links)},
      totalImages |-> acc.totalImages + Len(page.imgs),
      totalImagesWithoutAlt |-> acc.totalImagesWithoutAlt + PageImgMissing(page),
      totalFormControls |-> acc.totalFormControls + est.total,
      totalUnlabeledControls |-> acc.totalUnlabeledControls + est.unlabeled,
      totalForms |-> acc.totalForms + page.forms,
      pageMetricsMap |-> MapPut(acc.pageMetricsMap,
                                [url |-> pageUrl, missingAlt |-> PageImgMissing(page),
                                 unlabeledControls |-> est.unlabeled])]

\* for (let i = 0; i < htmlPages.length; i++): page i is filed under scannedPages[i]
RECURSIVE AnalyseFrom(_, _, _, _, _, _)
AnalyseFrom(i, acc, pages, scanned, s, normalized) ==
  IF i > Len(pages) THEN acc
  ELSE AnalyseFrom(i + 1,
                   AnalysePage(acc, Page(s, pages[i]),
                               IF i <= Len(scanned) THEN scanned[i] ELSE normalized,
                               normalized),
                   pages, scanned, s, normalized)

\* the sort key of a worst-page entry: missingAltCount or unlabeledControlsCount
WorstKey(m, byAlt) == IF byAlt THEN m.missingAltCount ELSE m.unlabeledControlsCount

\* Array.prototype.sort with (a, b) => key(b) - key(a): stable, descending
RECURSIVE InsertDesc(_, _, _)
InsertDesc(e, s, byAlt) ==
  IF s = <<>> THEN <<e>>
  ELSE IF WorstKey(e, byAlt) - WorstKey(Head(s), byAlt) > 0 THEN <<e>> \o s
  ELSE <<Head(s)>> \o InsertDesc(e, Tail(s), byAlt)

RECURSIVE SortDesc(_, _)
SortDesc(s, byAlt) ==
  IF s = <<>> THEN <<>>
  ELSE InsertDesc(s[Len(s)], SortDesc(SubSeq(s, 1, Len(s) - 1), byAlt), byAlt)

Slice(s, n) == SubSeq(s, 1, IF Len(s) < n THEN Len(s) ELSE n)

RECURSIVE WorstEntries(_, _)
WorstEntries(map, byAlt) ==
  IF map = <<>> THEN <<>>
  ELSE LET m == Head(map)
       IN (IF byAlt /\ m.missingAlt > 0
           THEN <<[url |-> m.url, missingAltCount |-> m.missingAlt, unlabeledControlsCount |-> 0]>>
           ELSE IF ~ byAlt /\ m.unlabeledControls > 0
           THEN <<[url |-> m.url, missingAltCount |-> 0, unlabeledControlsCount |-> m.unlabeledControls]>>
           ELSE <<>>)
          \o WorstEntries(Tail(map), byAlt)

\* the part of POST from the loop over htmlPages to the response object
Analyse(pages, scanned, s, normalized) ==
  LET t == AnalyseFrom(1, EmptyTotals, pages, scanned, s, normalized)
  IN [status |-> "ok",
      analysed |-> pages,
      pagesScanned |-> scanned,
      totalLinks |-> Cardinality(t.totalLinks),
      internal |-> Cardinality({l \in t.totalLinks : l.host = normalized.host}),
      external |-> Cardinality({l \in t.totalLinks : l.host # normalized.host}),
      totalForms |-> t.totalForms,
      controlsTotal |-> t.totalFormControls,
      controlsUnlabeledEstimate |-> t.totalUnlabeledControls,
      imagesTotal |-> t.totalImages,
      missingAlt |-> t.totalImagesWithoutAlt,
      pageMetrics |-> t.pageMetricsMap,
      byMissingAlt |-> Slice(SortDesc(WorstEntries(t.pageMetricsMap, TRUE), TRUE), WorstPagesShown),
      byUnlabeledControls |-> Slice(SortDesc(WorstEntries(t.pageMetricsMap, FALSE), FALSE), WorstPagesShown)]

NoResponse == [status |-> "none"]
CrawlExhausted == [status |-> "error"]
NotCalled == [fn |-> "none"]

\* no helper is being called on its own
HelperIdle == arg = NotCalled /\ ret = NotCalled

\* a request that has not arrived; status 0 stands for "no answer yet"
NewRequest == [pc |-> "new", raw |-> <<>>, url |-> InvalidUrl,
               crawled |-> FALSE, cached |-> FALSE, response |-> [status |-> 0]]

\* the server process has just started: empty cache and store, no request yet
ServerIdle ==
  /\ clock = 0
  /\ cache = [k \in NormUrls |-> Absent]
  /\ fingerprintStore = [k \in NormUrls |-> Absent]
  /\ reqs = [r \in RequestIds |-> NewRequest]
  /\ runs = <<>>

serverSide == <<clock, cache, fingerprintStore, reqs, runs>>

(***************************************************************************)
(* Initial state: crawlSite has set up its locals and is about to test the  *)
(* while condition for the first time.                                      *)
(***************************************************************************)
Init ==
  /\ site \in SiteIds
  /\ maxPages \in {SmallCap, DefaultMaxPages}
  /\ now = 0
  /\ pc = "loop"
  /\ toVisit = <<[url |-> Root, score |-> 0, seq |-> 0]>>
  /\ visited = {}
  /\ scannedPages = <<>>
  /\ htmlPages = <<>>
  /\ activePromises = <<>>
  /\ task = [u \in Urls |-> "none"]
  /\ limiterQueue = <<>>
  /\ nextSeq = 1
  /\ outstanding = {}
  /\ returned = 0 - 1
  /\ fallbacks = 0
  /\ fallbackOutcome = "none"
  /\ response = NoResponse
  /\ HelperIdle
  /\ ServerIdle

(***************************************************************************)
(* crawlSite: the orchestrating path.                                       *)
(***************************************************************************)
crawlVars == <<toVisit, visited, scannedPages, htmlPages, activePromises, task,
               limiterQueue, nextSeq>>
fixed == <<site, maxPages, arg, ret, serverSide>>
postVars == <<outstanding, returned, fallbacks, fallbackOutcome, response>>

\* while ((toVisit.length > 0 || activePromises.length > 0)
\*        && visited.size < maxPages && Date.now() - startTime < totalTimeoutMs)
LoopCond ==
  /\ toVisit # <<>> \/ activePromises # <<>>
  /\ Cardinality(visited) < maxPages
  /\ now < TotalTimeoutMs

LoopTest ==
  /\ pc = "loop"
  /\ pc' = IF LoopCond THEN "inner" ELSE "drain"
  /\ UNCHANGED <<fixed, now, crawlVars, postVars>>

\* while (toVisit.length > 0 && activePromises.length < 5)
InnerCond == toVisit # <<>> /\ Len(activePromises) < MaxActive

\* a variant that only stops queueing once the whole budget is used
SoftCutoff_total == now > TotalTimeoutMs

\* if (timeElapsed > totalTimeoutMs * 0.8) break
SoftCutoff == now > SoftCutoffMs

InnerExit ==
  /\ pc = "inner"
  /\ ~ InnerCond \/ SoftCutoff
  /\ pc' = "wait"
  /\ UNCHANGED <<fixed, now, crawlVars, postVars>>

\* sort, shift, skip if visited, else mark visited and submit the fetch task
InnerDequeue ==
  /\ pc = "inner"
  /\ InnerCond /\ ~ SoftCutoff
  /\ LET sorted == SortFrontier(toVisit)
         currentUrl == Head(sorted).url
     IN /\ toVisit' = Tail(sorted)
        /\ IF currentUrl \in visited
           THEN UNCHANGED <<visited, scannedPages, activePromises, task, limiterQueue>>
           ELSE /\ visited' = visited \cup {currentUrl}
                /\ scannedPages' = Append(scannedPages, currentUrl)
                /\ LimiterSubmit(currentUrl)
                /\ activePromises' = Append(activePromises, currentUrl)
  /\ pc' = "inner"
  /\ UNCHANGED <<fixed, now, htmlPages, nextSeq, postVars>>

\* if (activePromises.length > 0) await Promise.race(...) else if (toVisit.length === 0) break
WaitStep ==
  /\ pc = "wait"
  /\ pc' = IF activePromises # <<>> THEN "race"
           ELSE IF toVisit = <<>> THEN "drain" ELSE "timecheck"
  /\ UNCHANGED <<fixed, now, crawlVars, postVars>>

\* Promise.race(activePromises) is resolved once any listed promise has settled
RaceResolved == \E i \in 1..Len(activePromises) : Settled(activePromises[i])

\* activePromises.findIndex((p) => p.then(() => true).catch(() => true)):
\* the callback returns a promise, which is truthy, so the first index matches
FindIndex(ap) == 1

\* activePromises.splice(FindIndex, 1)
Splice(ap, i) == SubSeq(ap, 1, i - 1) \o SubSeq(ap, i + 1, Len(ap))

RaceResume ==
  /\ pc = "race"
  /\ RaceResolved
  /\ activePromises' = Splice(activePromises, FindIndex(activePromises))
  /\ pc' = "timecheck"
  /\ UNCHANGED <<fixed, now, toVisit, visited, scannedPages, htmlPages, task,
                 limiterQueue, nextSeq, postVars>>

\* if (Date.now() - startTime > totalTimeoutMs) break; else the 10 ms delay
TimeCheck ==
  /\ pc = "timecheck"
  /\ pc' = IF now > TotalTimeoutMs THEN "drain" ELSE "delay"
  /\ UNCHANGED <<fixed, now, crawlVars, postVars>>

DelayDone ==
  /\ pc = "delay"
  /\ pc' = "loop"
  /\ UNCHANGED <<fixed, now, crawlVars, postVars>>

\* a variant that throws when the budget is used up
Return_throwOnBudget ==
  /\ pc' = IF now >= TotalTimeoutMs THEN "failed" ELSE "done"
  /\ outstanding' = {u \in Urls : task[u] \in {"queued", "running"}}
  /\ returned' = IF now >= TotalTimeoutMs THEN returned ELSE Len(htmlPages)
  /\ response' = IF now >= TotalTimeoutMs THEN CrawlExhausted ELSE response
  /\ UNCHANGED <<fixed, now, crawlVars, fallbacks, fallbackOutcome>>

\* return { pages: htmlPages, scanned: scannedPages }
Return ==
  /\ pc' = "done"
  /\ outstanding' = {u \in Urls : task[u] \in {"queued", "running"}}
  /\ returned' = Len(htmlPages)
  /\ UNCHANGED <<fixed, now, crawlVars, fallbacks, fallbackOutcome, response>>

\* if (remainingTimeout > 500 && activePromises.length > 0) await the drain race
DrainCond == TotalTimeoutMs - now > DrainMinMs /\ activePromises # <<>>

DrainTest ==
  /\ pc = "drain"
  /\ IF DrainCond
     THEN /\ pc' = "draining"
          /\ UNCHANGED <<fixed, now, crawlVars, postVars>>
     ELSE Return

\* Promise.race([Promise.all(activePromises), timer(remainingTimeout - 100)])
DrainResolved ==
  \/ \A i \in 1..Len(activePromises) : Settled(activePromises[i])
  \/ now >= DrainDeadline

DrainDone ==
  /\ pc = "draining"
  /\ DrainResolved
  /\ Return

(***************************************************************************)
(* The environment: time and the fetch tasks.  Both move only while the     *)
(* orchestrating path is suspended at an await whose promise is pending.    *)
(***************************************************************************)
Suspended ==
  \/ pc = "race" /\ ~ RaceResolved
  \/ pc = "delay"
  \/ pc = "draining" /\ ~ DrainResolved
  \/ pc = "fallback"

Tick ==
  /\ Suspended
  /\ \E t \in TimePoints : t > now /\ now' = t
  /\ UNCHANGED <<fixed, pc, crawlVars, postVars>>

\* try { await fetchHtml(...) } returned: push the markup, then the accepted links
OnFetchOk(u) ==
  LET found == Discovered(Page(site, u).links, u, Root, nextSeq)
  IN /\ htmlPages' = Append(htmlPages, u)
     /\ toVisit' = toVisit \o found
     /\ nextSeq' = nextSeq + Len(found)
     /\ UNCHANGED <<pc, response>>

\* a variant where the task's error escapes and POST answers 500
OnFetchFailed_rethrow(u) ==
  /\ pc' = "failed"
  /\ response' = [status |-> "error"]
  /\ UNCHANGED <<htmlPages, toVisit, nextSeq>>

\* catch (e) { console.error(...) }: the failure is logged and nothing else happens
OnFetchFailed(u) ==
  UNCHANGED <<htmlPages, toVisit, nextSeq, pc, response>>

\* The task passed to limit() resumes after await fetchHtml(currentUrl, 5000) and
\* runs to its end; the limiter then frees the slot.
TaskSettle(u, outcome) ==
  /\ Suspended \/ pc \in {"responded", "failed"}
  /\ task[u] = "running"
  /\ outcome \in FetchOutcomes(site, u)
  /\ IF outcome = "ok" THEN OnFetchOk(u) ELSE OnFetchFailed(u)
  /\ LimiterRelease(u, outcome)
  /\ UNCHANGED <<fixed, now, visited, scannedPages, activePromises,
                 outstanding, returned, fallbacks, fallbackOutcome>>

(***************************************************************************)
(* POST, after crawlSite has returned.                                      *)
(***************************************************************************)
\* a variant that also falls back when the crawl fetched a single page
NeedsFallback_le1(pages) == Len(pages) <= 1

\* a variant that tests the wrong way round
NeedsFallback_nonempty(pages) == Len(pages) > 0

\* if (htmlPages.length === 0): the single-page fallback is needed
NeedsFallback(pages) == Len(pages) = 0

PostContinue ==
  /\ pc = "done"
  /\ IF NeedsFallback(htmlPages)
     THEN /\ pc' = "fallback"
          /\ fallbacks' = fallbacks + 1
          /\ fallbackOutcome' = "pending"
          /\ UNCHANGED response
     ELSE /\ pc' = "responded"
          /\ response' = Analyse(htmlPages, scannedPages, site, Root)
          /\ UNCHANGED <<fallbacks, fallbackOutcome>>
  /\ UNCHANGED <<fixed, now, crawlVars, outstanding, returned>>

\* await fetchHtml(normalized, 30000) returned: push the page and the URL, then analyse
FallbackOk ==
  /\ pc = "fallback"
  /\ htmlPages' = Append(htmlPages, Root)
  /\ scannedPages' = Append(scannedPages, Root)
  /\ response' = Analyse(htmlPages', scannedPages', site, Root)
  /\ pc' = "responded"
  /\ fallbackOutcome' = "ok"
  /\ UNCHANGED <<fixed, now, toVisit, visited, activePromises, task, limiterQueue,
                 nextSeq, outstanding, returned, fallbacks>>

\* await fetchHtml(normalized, 30000) threw: 500 with the no-pages message
FallbackFail ==
  /\ pc = "fallback"
  /\ response' = CrawlExhausted
  /\ pc' = "failed"
  /\ fallbackOutcome' = "failed"
  /\ UNCHANGED <<fixed, now, crawlVars, outstanding, returned, fallbacks>>

Next ==
  \/ LoopTest \/ InnerExit \/ InnerDequeue \/ WaitStep \/ RaceResume
  \/ TimeCheck \/ DelayDone \/ DrainTest \/ DrainDone
  \/ Tick
  \/ \E u \in Urls, outcome \in {"ok", "failed"} : TaskSettle(u, outcome)
  \/ PostContinue \/ FallbackOk \/ FallbackFail

Spec == Init /\ [][Next]_vars

(***************************************************************************)
(* Properties.                                                              *)
(***************************************************************************)
NoDuplicates(s) == \A i, j \in 1..Len(s) : i # j => s[i] # s[j]

CrawlPcs == {"loop", "inner", "wait", "race", "timecheck", "delay", "drain", "draining"}

\* C1: at no time do more than 5 fetch tasks execute at once, whatever the
\* frontier holds and in whatever order fetches complete or fail.
C1_BoundedConcurrency == Cardinality(Running) <= 5

\* five tasks execute and a sixth dispatched one is held back by the limiter
C1_Witness == Cardinality(Running) = 5 /\ limiterQueue # <<>>

\* C2: in the response of a completed run no URL appears twice in pagesScanned,
\* the fallback path included.
C2_VisitedUniqueness == response.status = "ok" => NoDuplicates(response.pagesScanned)

\* C3: a crawl run never marks more URLs visited (dispatched) than the page cap.
C3_PageCapRespected == Cardinality(visited) <= maxPages

\* C4: every dequeue removes an entry of maximal score, and among the entries of
\* that score the one pushed earliest.
C4_DequeueMaxStable ==
  [][(pc = "inner" /\ Len(toVisit') = Len(toVisit) - 1) =>
       \E removed \in Range(toVisit) :
          /\ removed \notin Range(toVisit')
          /\ \A e \in Range(toVisit) :
               /\ e.score <= removed.score
               /\ e.score = removed.score => removed.seq <= e.seq]_vars

\* on the wide site the two scored pages went out first, then the score-0 pages
\* in the order the root page lists them
C4_Witness ==
  /\ site = "wide"
  /\ Len(scannedPages) >= 6
  /\ SubSeq(scannedPages, 1, 6) = <<Root, uContact, uNewsA, uAbout, uNews, uTeam>>

\* C5: a fetch that fails changes nothing but its own task: the orchestrating
\* path keeps its position, no response is produced by it, the fetched pages
\* and the frontier stay as they are.
C5_FailureIsLocal ==
  [][(\E u \in Urls : task[u] = "running" /\ task'[u] = "failed") =>
       /\ pc' = pc
       /\ response' = response
       /\ htmlPages' = htmlPages
       /\ toVisit' = toVisit
       /\ visited' = visited]_vars

\* a run answered with a result although a fetch failed, and a URL dispatched
\* after the failed one was fetched
C5_Witness ==
  /\ response.status = "ok"
  /\ \E i, j \in 1..Len(scannedPages) :
       /\ i < j
       /\ task[scannedPages[i]] = "failed"
       /\ scannedPages[j] \in Range(response.analysed)

\* C6: the fallback fetch is issued exactly when crawlSite returned no page and
\* at most once; the run fails iff crawlSite returned no page and the fallback
\* failed, and otherwise answers with a result.
C6_FallbackExactly ==
  /\ fallbacks <= 1
  /\ pc \in {"fallback", "responded", "failed"} => (fallbacks = 1 <=> returned = 0)
  /\ pc \in CrawlPcs \cup {"done"} => fallbacks = 0 /\ response.status = "none"
  /\ pc \in {"responded", "failed"} =>
       /\ response.status = "error" <=> (returned = 0 /\ fallbackOutcome = "failed")
       /\ response.status = "ok" <=> ~ (returned = 0 /\ fallbackOutcome = "failed")

\* the fallback ran after an empty crawl and the run ended (either way)
C6_Witness == returned = 0 /\ fallbacks = 1 /\ pc = "failed"

\* C7: while crawlSite runs and more than 80% of the budget has elapsed, no
\* step dequeues or dispatches a URL; fetched pages are only ever added.
C7_SoftCutoff ==
  [][(pc \in CrawlPcs /\ now > SoftCutoffMs) =>
       /\ scannedPages' = scannedPages
       /\ visited' = visited
       /\ Len(toVisit') >= Len(toVisit)
       /\ \A u \in Urls : task[u] = "none" => task'[u] = "none"
       /\ Len(htmlPages') >= Len(htmlPages)
       /\ SubSeq(htmlPages', 1, Len(htmlPages)) = htmlPages]_vars

\* past the cutoff the inner loop has just stopped although the frontier holds
\* entries and there is room, and a page fetched by then is kept
C7_Witness ==
  /\ pc = "wait" /\ now > SoftCutoffMs
  /\ toVisit # <<>> /\ Len(activePromises) < MaxActive
  /\ Running # {}
  /\ Len(htmlPages) >= 2

\* C8: no page of a task that was still outstanding when crawlSite returned is
\* among the analysed pages.
C8_OutstandingDiscarded ==
  response.status = "ok" => Range(response.analysed) \cap outstanding = {}

\* a task outstanding at the return later fetched its page, which was not analysed
C8_Witness ==
  /\ response.status = "ok"
  /\ \E u \in outstanding : task[u] = "ok" /\ u \in Range(htmlPages)
                            /\ u \notin Range(response.analysed)

\* the orders in which the same pages can be handed to the aggregation
PermutationsOf(s) ==
  {[i \in 1..Len(s) |-> s[f[i]]] : f \in Permutations(1..Len(s))}

SiteMetrics(r) ==
  <<r.imagesTotal, r.missingAlt, r.controlsTotal, r.controlsUnlabeledEstimate,
    r.totalLinks, r.internal, r.external>>

Rankings(r) == <<r.byMissingAlt, r.byUnlabeledControls>>

\* C9: aggregating the analysed pages in any other order gives the same totals,
\* the same internal/external split and the same worst-page rankings.
C9_CommutativeAggregation ==
  response.status = "ok" =>
    \A p \in PermutationsOf(response.analysed) :
      LET r == Analyse(p, response.pagesScanned, site, Root)
      IN SiteMetrics(r) = SiteMetrics(response) /\ Rankings(r) = Rankings(response)

RECURSIVE SumImages(_, _, _)
SumImages(pages, s, onlyAbsent) ==
  IF pages = <<>> THEN 0
  ELSE Cardinality({i \in 1..Len(Page(s, Head(pages)).imgs) :
                      onlyAbsent => Page(s, Head(pages)).imgs[i] = NoAttr})
       + SumImages(Tail(pages), s, onlyAbsent)

\* C10: the image total counts every image, the missing-alt counts (site total
\* and per page) count exactly the images without an alt attribute; alt="" is
\* not missing.
C10_MissingAltSemantics ==
  response.status = "ok" =>
    /\ response.imagesTotal = SumImages(response.analysed, site, FALSE)
    /\ response.missingAlt = SumImages(response.analysed, site, TRUE)
    /\ Len(response.pageMetrics) = Len(response.analysed)
    /\ \A i \in 1..Len(response.analysed) :
         response.pageMetrics[i].missingAlt = SumImages(<<response.analysed[i]>>, site, TRUE)

\* a page with an image without alt and an image with alt="" was analysed
C10_Witness ==
  /\ response.status = "ok"
  /\ \E u \in Range(response.analysed) :
       /\ \E i \in 1..Len(Page(site, u).imgs) : Page(site, u).imgs[i] = ""
       /\ \E i \in 1..Len(Page(site, u).imgs) : Page(site, u).imgs[i] = NoAttr
  /\ response.missingAlt < response.imagesTotal

\* C15 as stated: once a page linking to https://site/a/b/c/d/e?x=1 has been
\* fetched, the link's score is below the acceptance cutoff and the link is not
\* in the frontier.
C15_ScoredBelowCutoff ==
  (site = "small" /\ task[uNewsA] = "ok") =>
    /\ scoreUrl(uDeepQuery, Root) < ScoreCutoff
    /\ \A i \in 1..Len(toVisit) : toVisit[i].url # uDeepQuery

\* C15, amended: the link scores -1 (no depth bonus, query penalty), which is
\* not below the cutoff -3; it is never admitted to the frontier nor dispatched
\* because shouldCrawlUrl rejects it (query string, more than 3 segments).
C15_DeepQueryNotAdmitted ==
  /\ scoreUrl(uDeepQuery, Root) = 0 - 1
  /\ scoreUrl(uDeepQuery, Root) >= ScoreCutoff
  /\ ~ shouldCrawlUrl(uDeepQuery, Root)
  /\ \A i \in 1..Len(toVisit) : toVisit[i].url # uDeepQuery
  /\ uDeepQuery \notin visited

\* the page that links to it was fetched while the cap and the soft cutoff
\* still let accepted links in
C15_Witness ==
  /\ site = "small" /\ task[uNewsA] = "ok"
  /\ maxPages = DefaultMaxPages
  /\ now = 0
  /\ uDeepQuery \in {Resolve(Page(site, uNewsA).links[k], uNewsA) :
                       k \in 1..Len(Page(site, uNewsA).links)}

(***************************************************************************)
(* The crawl under fair scheduling: the event loop runs a continuation that *)
(* is ready, timers fire (time advances), and every fetch settles, by its   *)
(* 5 s abort at the latest.                                                 *)
(***************************************************************************)
Orchestrate ==
  \/ LoopTest \/ InnerExit \/ InnerDequeue \/ WaitStep \/ RaceResume
  \/ TimeCheck \/ DelayDone \/ DrainTest \/ DrainDone

Settle == \E u \in Urls, outcome \in {"ok", "failed"} : TaskSettle(u, outcome)

Fairness == WF_vars(Orchestrate) /\ SF_vars(Tick) /\ SF_vars(Settle)

\* the runs on the "small" site, with either page cap
InitLive == Init /\ site = "small"

SpecLive == InitLive /\ [][Next]_vars /\ Fairness

\* Seeded (1): nothing dequeued yet; Expanding (2): the main loop; Draining (3):
\* after the main loop; Done (4): crawlSite has returned
PhaseOf(p, scanned) ==
  IF p \in {"drain", "draining"} THEN 3
  ELSE IF p \notin CrawlPcs THEN 4
  ELSE IF scanned = <<>> /\ p = "loop" THEN 1
  ELSE 2

\* C18: every run of crawlSite returns; its phase only moves forward, one phase
\* at a time; and it leaves the crawl only by returning the pages fetched so
\* far, also when the total budget ended it.
C18_CrawlTerminates ==
  /\ <>(returned >= 0)
  /\ [][/\ PhaseOf(pc', scannedPages') \in {PhaseOf(pc, scannedPages),
                                            PhaseOf(pc, scannedPages) + 1}
        /\ (pc \in CrawlPcs /\ pc' \notin CrawlPcs) =>
              (pc' = "done" /\ returned' = Len(htmlPages) /\ htmlPages' = htmlPages)]_vars

\* the budget ran out while fetches were outstanding and pages had been
\* fetched, and crawlSite returned those pages
C18_Witness ==
  /\ pc = "done" /\ now >= TotalTimeoutMs
  /\ outstanding # {}
  /\ returned >= 2

\* C19: the task that the wait-for-one-completion step removes from
\* activePromises has completed, and while crawlSite runs every task that has
\* not completed is in activePromises (so that the drain awaits all of them).
C19_RemovedTaskCompleted ==
  [][/\ (pc = "race" /\ pc' = "timecheck") =>
          \A u \in Range(activePromises) \ Range(activePromises') : Settled(u)
     /\ pc' \in CrawlPcs =>
          \A u \in Urls : task'[u] \in {"queued", "running"} => u \in Range(activePromises')]_vars

\* C20: a step in which a fetch task runs (settles) neither changes the
\* frontier nor depends on the visited set: the frontier is the same before
\* and after it.
C20_TasksLeaveFrontierAlone ==
  [][(\E u \in Urls : task[u] = "running" /\ task'[u] \in {"ok", "failed"})
       => toVisit' = toVisit /\ visited' = visited]_vars

(***************************************************************************)
(* estimateUnlabeledControls called on its own, on a page that holds one    *)
(* control.                                                                 *)
(***************************************************************************)
\* no crawl is in progress
CrawlIdle ==
  /\ site = "small"
  /\ maxPages = DefaultMaxPages
  /\ now = 0
  /\ pc = "idle"
  /\ toVisit = <<>>
  /\ visited = {}
  /\ scannedPages = <<>>
  /\ htmlPages = <<>>
  /\ activePromises = <<>>
  /\ task = [u \in Urls |-> "none"]
  /\ limiterQueue = <<>>
  /\ nextSeq = 1
  /\ outstanding = {}
  /\ returned = 0 - 1
  /\ fallbacks = 0
  /\ fallbackOutcome = "none"
  /\ response = NoResponse

crawlSide == <<site, maxPages, now, pc, crawlVars, postVars>>

\* the rest of the page around the control: the element ids that exist and the
\* values of the for attributes of its <label> elements
LabelContext == [EmptyPage EXCEPT !.ids = {"lbl", "user.name", "f1", "f2"},
                                  !.labelFor = {"f1"}]

LabelControls ==
  [tag : {"input", "select"},
   type : {NoAttr, "text", "hidden"},
   ariaLabel : {NoAttr, "", "Name"},
   title : {NoAttr, "", "Hint"},
   labelledby : {<<>>, <<"lbl">>, <<"gone">>, <<"gone", "user.name">>},
   id : {NoAttr, "f1", "f2"},
   wrapped : BOOLEAN,
   placeholder : {NoAttr, "Your name"}]

InitLabel ==
  /\ CrawlIdle
  /\ arg \in {[LabelContext EXCEPT !.controls = <<c>>] : c \in LabelControls}
  /\ ret = NotCalled
  /\ ServerIdle

CallEstimate ==
  /\ ret = NotCalled
  /\ ret' = estimateUnlabeledControls(arg)
  /\ UNCHANGED <<arg, crawlSide, serverSide>>

NextLabel == CallEstimate

SpecLabel == InitLabel /\ [][NextLabel]_vars

\* C11: a counted control is classified as labeled if and only if it has an
\* aria-label attribute, or a title attribute, or its aria-labelledby names an
\* id that exists in the page, or a <label for> matches its id, or it is nested
\* inside a <label>.
C11_LabelChain ==
  (ret # NotCalled /\ ret.total = 1) =>
    LET c == arg.controls[1]
    IN ret.unlabeled = 0 <=>
         \/ c.ariaLabel # NoAttr
         \/ c.title # NoAttr
         \/ \E i \in 1..Len(c.labelledby) : c.labelledby[i] \in arg.ids
         \/ c.id # NoAttr /\ c.id \in arg.labelFor
         \/ c.wrapped

(***************************************************************************)
(* computeFingerprint.  A 32-bit integer is kept as its two 16-bit halves   *)
(* (of the two's-complement bit pattern), so that no intermediate value     *)
(* leaves the range of the checker's integers.                              *)
(***************************************************************************)
HalfWord == 65536
Colon == 58                  \* ":".charCodeAt(0)
DigitZero == 48              \* "0".charCodeAt(0)
Radix == 36                  \* toString(36)

\* the char codes of `${n}` for a non-negative integer n
RECURSIVE NumberChars(_)
NumberChars(n) ==
  IF n < 10 THEN <<DigitZero + n>>
  ELSE NumberChars(n \div 10) \o <<DigitZero + (n % 10)>>

MetricsOf(a, b, c, d, e) ==
  [totalImages |-> a, missingAlt |-> b, totalControls |-> c,
   unlabeledControls |-> d, totalLinks |-> e]

\* `${totalImages}:${missingAlt}:${totalControls}:${unlabeledControls}:${totalLinks}`
FingerprintString(m) ==
  NumberChars(m.totalImages) \o <<Colon>> \o NumberChars(m.missingAlt) \o <<Colon>>
  \o NumberChars(m.totalControls) \o <<Colon>> \o NumberChars(m.unlabeledControls)
  \o <<Colon>> \o NumberChars(m.totalLinks)

\* hash = (hash << 5) - hash + char; hash = hash & hash:
\* 31 * hash + char, truncated to 32 bits
HashStep(h, char) ==
  LET low == h.lo * 31 + char
  IN [hi |-> (h.hi * 31 + (low \div HalfWord)) % HalfWord, lo |-> low % HalfWord]

RECURSIVE HashChars(_, _)
HashChars(h, str) ==
  IF str = <<>> THEN h ELSE HashChars(HashStep(h, Head(str)), Tail(str))

\* Math.abs of the signed 32-bit value: a set top bit means a negative number,
\* whose magnitude is 2^32 minus the bit pattern
AbsInt32(h) ==
  IF h.hi < HalfWord \div 2 THEN h
  ELSE IF h.lo = 0 THEN [hi |-> HalfWord - h.hi, lo |-> 0]
  ELSE [hi |-> HalfWord - 1 - h.hi, lo |-> HalfWord - h.lo]

\* Number.prototype.toString(36): the base-36 digits, most significant first
RECURSIVE ToBase36(_)
ToBase36(n) ==
  LET t == (n.hi % Radix) * HalfWord + n.lo
  IN IF n.hi = 0 /\ n.lo < Radix THEN <<n.lo>>
     ELSE ToBase36([hi |-> n.hi \div Radix, lo |-> t \div Radix]) \o <<t % Radix>>

\* a variant whose checksum also covers the timestamp
computeFingerprint_stamped(metrics, stamp) ==
  [hash |-> ToBase36(AbsInt32(HashChars([hi |-> 0, lo |-> 0],
                                        FingerprintString(metrics) \o NumberChars(stamp)))),
   timestamp |-> stamp,
   metrics |-> metrics]

\* stamp is new Date().toISOString() at the time of the call
computeFingerprint(metrics, stamp) ==
  [hash |-> ToBase36(AbsInt32(HashChars([hi |-> 0, lo |-> 0], FingerprintString(metrics)))),
   timestamp |-> stamp,
   metrics |-> metrics]

\* counter values from which the metric vectors of the two runs are drawn
ImageCounts == {3, 12, 16}
MissingAltCounts == {3, 5, 12}
ControlCounts == {5, 7}
UnlabeledCounts == {3, 5}
LinkCounts == {0, 13}

MetricVectors ==
  {m \in [totalImages : ImageCounts, missingAlt : MissingAltCounts,
          totalControls : ControlCounts, unlabeledControls : UnlabeledCounts,
          totalLinks : LinkCounts] :
     m.missingAlt <= m.totalImages /\ m.unlabeledControls <= m.totalControls}

\* the times of the two runs
StampOf(run) == 1000 * run

\* two runs, each with its own metric vector; ret collects their fingerprints
InitFingerprint ==
  /\ CrawlIdle
  /\ arg \in MetricVectors \X MetricVectors
  /\ ret = <<>>
  /\ ServerIdle

CallFingerprint ==
  /\ Len(ret) < Len(arg)
  /\ ret' = Append(ret, computeFingerprint(arg[Len(ret) + 1], StampOf(Len(ret) + 1)))
  /\ UNCHANGED <<arg, crawlSide, serverSide>>

NextFingerprint == CallFingerprint

SpecFingerprint == InitFingerprint /\ [][NextFingerprint]_vars

\* two metric vectors with the same checksum: both strings hash to -347618036
CollidingA == MetricsOf(12, 12, 5, 5, 13)
CollidingB == MetricsOf(16, 5, 7, 3, 0)

ClockPoints == {0, 1000, CACHE_TTL, CACHE_TTL + 1000}

\* the counters of a crawl that fetched pages, and of a fallback fetch
CrawlVectors == {MetricsOf(16, 10, 7, 4, 13), MetricsOf(16, 6, 7, 4, 13)}
FallbackVectors == {MetricsOf(3, 3, 5, 3, 0)}
NoPages == [pages |-> 0]         \* crawlSite returned no page
FetchThrew == [threw |-> TRUE]   \* fetchHtml threw
AnalysisThrew == [analysisThrew |-> TRUE]   \* an exception on the way to the fingerprint

\* cached && Date.now() - cached.timestamp < CACHE_TTL
CacheHit(url) == cache[url] # Absent /\ clock - cache[url].timestamp < CACHE_TTL

\* cache.set(url, { data, timestamp: Date.now() })
setCached(url, data) == [cache EXCEPT ![url] = [data |-> data, timestamp |-> clock]]

\* a variant that reports after - before the wrong way round
ChangesOf_swapped(previousFingerprint, currentMetrics) ==
  IF previousFingerprint = Absent THEN Absent
  ELSE [missingAlt |->
          [before |-> previousFingerprint.metrics.missingAlt,
           after |-> currentMetrics.missingAlt,
           delta |-> previousFingerprint.metrics.missingAlt - currentMetrics.missingAlt],
        unlabeledControls |->
          [before |-> previousFingerprint.metrics.unlabeledControls,
           after |-> currentMetrics.unlabeledControls,
           delta |-> previousFingerprint.metrics.unlabeledControls
                     - currentMetrics.unlabeledControls]]

\* const changes = previousFingerprint ? {...} : undefined
ChangesOf(previousFingerprint, currentMetrics) ==
  IF previousFingerprint = Absent THEN Absent
  ELSE [missingAlt |->
          [before |-> previousFingerprint.metrics.missingAlt,
           after |-> currentMetrics.missingAlt,
           delta |-> currentMetrics.missingAlt - previousFingerprint.metrics.missingAlt],
        unlabeledControls |->
          [before |-> previousFingerprint.metrics.unlabeledControls,
           after |-> currentMetrics.unlabeledControls,
           delta |-> currentMetrics.unlabeledControls
                     - previousFingerprint.metrics.unlabeledControls]]

\* a variant that keeps the fingerprint of the first run
StorePut_keepFirst(store, url, fp) ==
  IF store[url] = Absent THEN [store EXCEPT ![url] = fp] ELSE store

\* fingerprintStore.set(normalized, currentFingerprint)
StorePut(store, url, fp) == [store EXCEPT ![url] = fp]

Respond(r, resp) == reqs' = [reqs EXCEPT ![r].pc = "done", ![r].response = resp]

\* the request arrives: missing url and normalizeUrl's throw answer 400, a
\* fresh cache entry answers the request, otherwise the crawl starts
Receive(r, raw) ==
  /\ reqs[r].pc = "new"
  /\ r > 1 => reqs[r - 1].pc # "new"
  /\ LET normalized == normalizeUrl(raw)
         arrived == [reqs[r] EXCEPT !.raw = raw]
     IN IF raw = <<>> \/ normalized = InvalidUrl
        THEN /\ reqs' = [reqs EXCEPT ![r] = [arrived EXCEPT !.pc = "done",
                                                            !.response = [status |-> 400]]]
             /\ UNCHANGED cache
        ELSE IF CacheHit(normalized)
        THEN /\ reqs' = [reqs EXCEPT ![r] = [arrived EXCEPT !.pc = "done", !.url = normalized,
                                                            !.cached = TRUE,
                                                            !.response = cache[normalized].data]]
             /\ UNCHANGED cache
        ELSE /\ reqs' = [reqs EXCEPT ![r] = [arrived EXCEPT !.pc = "crawling", !.url = normalized,
                                                            !.crawled = TRUE]]
             /\ cache' = [cache EXCEPT ![normalized] = Absent]
  /\ UNCHANGED <<clock, fingerprintStore, runs, arg, ret, crawlSide>>

\* a variant in which a run that finds a fresh cache entry of an overlapping run
\* leaves that run's fingerprint in the store
Complete_lostUpdate(r, currentMetrics) ==
  LET normalized == reqs[r].url
      currentFingerprint == computeFingerprint(currentMetrics, clock)
      previousFingerprint == fingerprintStore[normalized]
      resp == [status |-> 200, url |-> normalized, generatedAt |-> clock,
               currentFingerprint |-> currentFingerprint,
               previousFingerprint |-> previousFingerprint,
               changes |-> ChangesOf(previousFingerprint, currentMetrics)]
  IN /\ fingerprintStore' = IF CacheHit(normalized) THEN fingerprintStore
                            ELSE StorePut(fingerprintStore, normalized, currentFingerprint)
     /\ cache' = setCached(normalized, resp)
     /\ runs' = Append(runs, resp)
     /\ Respond(r, resp)

\* from the loop over htmlPages to return NextResponse.json(response)
Complete(r, currentMetrics) ==
  LET normalized == reqs[r].url
      currentFingerprint == computeFingerprint(currentMetrics, clock)
      previousFingerprint == fingerprintStore[normalized]
      resp == [status |-> 200, url |-> normalized, generatedAt |-> clock,
               currentFingerprint |-> currentFingerprint,
               previousFingerprint |-> previousFingerprint,
               changes |-> ChangesOf(previousFingerprint, currentMetrics)]
  IN /\ fingerprintStore' = StorePut(fingerprintStore, normalized, currentFingerprint)
     /\ cache' = setCached(normalized, resp)
     /\ runs' = Append(runs, resp)
     /\ Respond(r, resp)

\* a variant that caches the error answer
Fail_cached(r) ==
  /\ Respond(r, [status |-> 500])
  /\ cache' = setCached(reqs[r].url, [status |-> 500])
  /\ UNCHANGED <<fingerprintStore, runs>>

\* return new NextResponse(msg, { status: 500 }) of the two catch blocks
Fail(r) ==
  /\ Respond(r, [status |-> 500])
  /\ UNCHANGED <<cache, fingerprintStore, runs>>

\* crawlSite returned: no page leads to the fallback fetch, pages to the
\* analysis, which ends in the response or in the catch of POST
CrawlReturned(r, outcome) ==
  /\ reqs[r].pc = "crawling"
  /\ IF outcome = NoPages
     THEN /\ reqs' = [reqs EXCEPT ![r].pc = "fallback"]
          /\ UNCHANGED <<cache, fingerprintStore, runs>>
     ELSE IF outcome = AnalysisThrew THEN Fail(r)
     ELSE Complete(r, outcome)
  /\ UNCHANGED <<clock, arg, ret, crawlSide>>

\* the fallback fetch returned a page, or threw (500)
FallbackReturned(r, outcome) ==
  /\ reqs[r].pc = "fallback"
  /\ IF outcome = FetchThrew
     THEN Fail(r)
     ELSE Complete(r, outcome)
  /\ UNCHANGED <<clock, arg, ret, crawlSide>>

Advance ==
  /\ \E t \in ClockPoints : t > clock /\ clock' = t
  /\ UNCHANGED <<cache, fingerprintStore, reqs, runs, arg, ret, crawlSide>>

InitPost == CrawlIdle /\ HelperIdle /\ ServerIdle

NextPost ==
  \/ \E r \in RequestIds, raw \in RawInputs : Receive(r, raw)
  \/ \E r \in RequestIds, outcome \in CrawlVectors \cup {NoPages, AnalysisThrew} :
       CrawlReturned(r, outcome)
  \/ \E r \in RequestIds, outcome \in FallbackVectors \cup {FetchThrew} : FallbackReturned(r, outcome)
  \/ Advance

SpecPost == InitPost /\ [][NextPost]_vars

\* the completed runs for one normalized URL, in order of completion
RunsFor(url) == SelectSeq(runs, LAMBDA resp : resp.url = url)

\* C13: a run that found a previous fingerprint for its URL reports, for the
\* missing-alt and the unlabeled-control counter, before = the value measured by
\* the previous run for that URL, after = its own value, delta = after - before.
C13_DiffCorrect ==
  \A url \in NormUrls :
    LET rs == RunsFor(url)
    IN \A k \in 2..Len(rs) :
         LET before == rs[k - 1].currentFingerprint.metrics
             after == rs[k].currentFingerprint.metrics
         IN /\ rs[k].changes # Absent
            /\ rs[k].changes.missingAlt =
                 [before |-> before.missingAlt, after |-> after.missingAlt,
                  delta |-> after.missingAlt - before.missingAlt]
            /\ rs[k].changes.unlabeledControls =
                 [before |-> before.unlabeledControls, after |-> after.unlabeledControls,
                  delta |-> after.unlabeledControls - before.unlabeledControls]

\* the spec's example: 10 missing alts and 4 unlabeled controls before, 6 and 4
\* now, reported as deltas -4 and 0
C13_Witness ==
  \E url \in NormUrls :
    /\ Len(RunsFor(url)) = 2
    /\ RunsFor(url)[1].currentFingerprint.metrics = MetricsOf(16, 10, 7, 4, 13)
    /\ RunsFor(url)[2].currentFingerprint.metrics = MetricsOf(16, 6, 7, 4, 13)
    /\ RunsFor(url)[2].changes.missingAlt.delta = 0 - 4
    /\ RunsFor(url)[2].changes.unlabeledControls.delta = 0

\* C14: the first run for a URL reports no previous fingerprint and no changes;
\* every later run reports as previous the fingerprint of the run completed
\* just before it for that URL; the store holds for each URL the fingerprint of
\* its most recently completed run and nothing for a URL without a run.
C14_StoreTracksLatestRun ==
  \A url \in NormUrls :
    LET rs == RunsFor(url)
    IN /\ fingerprintStore[url] =
            (IF rs = <<>> THEN Absent ELSE rs[Len(rs)].currentFingerprint)
       /\ rs # <<>> => rs[1].previousFingerprint = Absent /\ rs[1].changes = Absent
       /\ \A k \in 2..Len(rs) : rs[k].previousFingerprint = rs[k - 1].currentFingerprint

\* two requests that spell one URL differently have each completed a run, with
\* different counters; the store holds the second run's fingerprint
C14_Witness ==
  \E url \in NormUrls :
    /\ Len(RunsFor(url)) = 2
    /\ RunsFor(url)[1].currentFingerprint.hash # RunsFor(url)[2].currentFingerprint.hash
    /\ reqs[1].raw # reqs[2].raw
    /\ fingerprintStore[url] = RunsFor(url)[2].currentFingerprint

\* C16: for one normalized URL no crawl is started while an earlier request
\* for it is still crawling, and a request that arrives while a cached result
\* is fresh is answered with that result without crawling, so that the requests
\* of a window all carry the same result.
C16_IdempotentInWindow ==
  /\ \A r1, r2 \in RequestIds :
       (r1 # r2 /\ reqs[r1].pc \in {"crawling", "fallback"}
               /\ reqs[r2].pc \in {"crawling", "fallback"})
         => reqs[r1].url # reqs[r2].url
  /\ \A r1, r2 \in RequestIds :
       (r1 < r2 /\ reqs[r1].url = reqs[r2].url
               /\ reqs[r1].response.status = 200 /\ reqs[r2].response.status = 200
               /\ reqs[r2].response.generatedAt - reqs[r1].response.generatedAt < CACHE_TTL)
         => reqs[r1].response = reqs[r2].response

\* the scheme an input string is written with ("" when it has none)
SchemePieces == {"http:", "https:", "ftp:"}
SchemeOf(raw) == IF raw # <<>> /\ raw[1] \in SchemePieces THEN raw[1] ELSE ""

\* C17: a request whose url has a scheme other than http or https, or cannot
\* be parsed as a URL, is answered 400 and never crawled; a url without a scheme
\* is taken as https:// followed by the url.
C17_InvalidInputRejected ==
  \A r \in RequestIds :
    (reqs[r].pc # "new" /\ reqs[r].raw # <<>>) =>
      LET raw == reqs[r].raw
          prefixed == <<"https:", "//">> \o raw
      IN /\ (SchemeOf(raw) \notin {"", "http:", "https:"}
              \/ (SchemeOf(raw) = "" /\ ParseUrl(prefixed) = InvalidUrl))
               => reqs[r].response.status = 400 /\ ~ reqs[r].crawled
         /\ (SchemeOf(raw) = "" /\ ParseUrl(prefixed) # InvalidUrl)
               => reqs[r].url = ParseUrl(prefixed)

(***************************************************************************)
(* Properties of the frontier and of the attribution of pages.              *)
(***************************************************************************)
FrontierUrls == [i \in 1..Len(toVisit) |-> toVisit[i].url]

\* C21: while crawlSite runs the frontier holds no URL twice and no URL that
\* is in the visited set.
C21_FrontierNoDuplicates ==
  pc \in CrawlPcs => NoDuplicates(FrontierUrls) /\ Range(FrontierUrls) \cap visited = {}

\* the resolved links of the page at u, in document order
LinksOf(u) == [k \in 1..Len(Page(site, u).links) |-> Resolve(Page(site, u).links[k], u)]

\* the URLs of the entries a step appended to the frontier
Pushed(before, after) ==
  [i \in 1..(Len(after) - Len(before)) |-> after[Len(before) + i].url]

FetchedOk(u) == task[u] = "running" /\ task'[u] = "ok"

C23_PageAttribution ==
  response.status = "ok" =>
    \A i \in 1..Len(response.pageMetrics) :
      LET m == response.pageMetrics[i]
      IN /\ m.missingAlt = PageImgMissing(Page(site, m.url))
         /\ m.unlabeledControls = estimateUnlabeledControls(Page(site, m.url)).unlabeled

(***************************************************************************)
(* The analysis called on its own: the pages of the "audit" site, any       *)
(* selection of them, in the order of AuditOrder or in the opposite order.  *)
(***************************************************************************)
AuditOrder == <<Root, uAbout, uContact, uNews, uNewsA, uTeam, uJobs, uBlog, uHelpForm>>

Reverse(s) == [i \in 1..Len(s) |-> s[Len(s) + 1 - i]]

AuditInputs ==
  LET pick(S) == SelectSeq(AuditOrder, LAMBDA u : u \in S)
  IN UNION {{pick(S), Reverse(pick(S))} : S \in SUBSET Range(AuditOrder)}

InitAnalyse ==
  /\ CrawlIdle
  /\ arg \in {[pages |-> p] : p \in AuditInputs}
  /\ ret = NotCalled
  /\ ServerIdle

CallAnalyse ==
  /\ ret = NotCalled
  /\ ret' = Analyse(arg.pages, arg.pages, "audit", Root)
  /\ UNCHANGED <<arg, crawlSide, serverSide>>

NextAnalyse == CallAnalyse

SpecAnalyse == InitAnalyse /\ [][NextAnalyse]_vars

\* the pages of a list whose analysis runs to its end
Completing(pages) == SelectSeq(pages, LAMBDA u : ~ EstimateThrows(Page("audit", u)))

\* C24: a page whose analysis fails partway contributes nothing: the site
\* totals (unique links, forms, controls, unlabeled controls, images, missing
\* alt) and the per-page rankings are those of the run without that page.
C24_FailedPageContributesNothing ==
  ret # NotCalled =>
    LET clean == Analyse(Completing(arg.pages), Completing(arg.pages), "audit", Root)
    IN /\ ret.totalLinks = clean.totalLinks
       /\ ret.internal = clean.internal
       /\ ret.external = clean.external
       /\ ret.totalForms = clean.totalForms
       /\ ret.controlsTotal = clean.controlsTotal
       /\ ret.controlsUnlabeledEstimate = clean.controlsUnlabeledEstimate
       /\ ret.imagesTotal = clean.imagesTotal
       /\ ret.missingAlt = clean.missingAlt
       /\ ret.pageMetrics = clean.pageMetrics
       /\ ret.byMissingAlt = clean.byMissingAlt
       /\ ret.byUnlabeledControls = clean.byUnlabeledControls

\* the number of defects of one kind in the markup that URL u serves
DefectCount(u, byAlt) ==
  IF byAlt THEN PageImgMissing(Page(site, u))
  ELSE estimateUnlabeledControls(Page(site, u)).unlabeled

\* the position of URL u in the list of scanned pages of the response
ScanIndex(u) == CHOOSE i \in 1..Len(response.pagesScanned) : response.pagesScanned[i] = u

\* C25: each of the two worst-page lists holds at most 5 pages, only pages
\* whose count for the metric is non-zero, in non-increasing order of the
\* count, equal counts in the order in which the pages entered the scan, and
\* no analysed page that is left out has a larger count than a listed one.
C25_WorstPagesRanked ==
  response.status = "ok" =>
    \A byAlt \in BOOLEAN :
      LET L == IF byAlt THEN response.byMissingAlt ELSE response.byUnlabeledControls
          listed == {L[i].url : i \in 1..Len(L)}
      IN /\ Len(L) <= WorstPagesShown
         /\ \A i \in 1..Len(L) : /\ L[i].url \in Range(response.pagesScanned)
                                  /\ DefectCount(L[i].url, byAlt) > 0
         /\ \A i, j \in 1..Len(L) :
              i < j => /\ DefectCount(L[i].url, byAlt) >= DefectCount(L[j].url, byAlt)
                       /\ DefectCount(L[i].url, byAlt) = DefectCount(L[j].url, byAlt)
                            => ScanIndex(L[i].url) < ScanIndex(L[j].url)
         /\ \A u \in Range(response.analysed) \ listed :
              \A i \in 1..Len(L) : DefectCount(u, byAlt) <= DefectCount(L[i].url, byAlt)

(***************************************************************************)
(* Issue derivation and severity/effort classification, called on their own *)
(* on the site totals.                                                      *)
(***************************************************************************)
MaxCount == 2

\* a PageBasics value, reduced to the fields that deriveIssuesFromBasics reads
Basics ==
  [controlsTotal : 0..MaxCount, controlsUnlabeledEstimate : 0..MaxCount,
   imagesTotal : 0..MaxCount, missingAlt : 0..MaxCount, linksTotal : 0..MaxCount]

\* the ids of the issues, in the order in which they are pushed
deriveIssuesFromBasics(b) ==
  (IF b.controlsTotal > 0 /\ b.controlsUnlabeledEstimate > 0 THEN <<"missing-labels">> ELSE <<>>)
  \o (IF b.imagesTotal > 0 /\ b.missingAlt > 0 THEN <<"missing-alt">> ELSE <<>>)
  \o (IF b.linksTotal = 0 THEN <<"no-links-detected">> ELSE <<>>)

\* a variant that grades two issues together higher than one
deriveSeverityEffort_graded(issues) ==
  LET hasLabels == \E i \in 1..Len(issues) : issues[i] = "missing-labels"
      hasAlt == \E i \in 1..Len(issues) : issues[i] = "missing-alt"
  IN IF hasLabels /\ hasAlt THEN [severity |-> "High", effort |-> "Complex"]
     ELSE IF hasLabels THEN [severity |-> "Medium", effort |-> "Moderate"]
     ELSE IF hasAlt THEN [severity |-> "Low", effort |-> "Easy"]
     ELSE [severity |-> "Low", effort |-> "Easy"]

deriveSeverityEffort(issues) ==
  LET hasLabels == \E i \in 1..Len(issues) : issues[i] = "missing-labels"
      hasAlt == \E i \in 1..Len(issues) : issues[i] = "missing-alt"
  IN IF hasLabels /\ hasAlt THEN [severity |-> "Medium", effort |-> "Moderate"]
     ELSE IF hasLabels THEN [severity |-> "Medium", effort |-> "Moderate"]
     ELSE IF hasAlt THEN [severity |-> "Low", effort |-> "Easy"]
     ELSE [severity |-> "Low", effort |-> "Easy"]

InitDerive ==
  /\ CrawlIdle
  /\ arg \in Basics
  /\ ret = NotCalled
  /\ ServerIdle

\* const issues = deriveIssuesFromBasics(basics); const derived = deriveSeverityEffort(issues)
CallDerive ==
  /\ ret = NotCalled
  /\ LET issues == deriveIssuesFromBasics(arg)
     IN ret' = [issues |-> issues, derived |-> deriveSeverityEffort(issues)]
  /\ UNCHANGED <<arg, crawlSide, serverSide>>

NextDerive == CallDerive

SpecDerive == InitDerive /\ [][NextDerive]_vars

\* C26: severity and effort depend only on which issue ids are present:
\* missing-labels and missing-alt together give Medium/Moderate, missing-labels
\* alone Medium/Moderate, missing-alt alone Low/Easy, neither Low/Easy; so the
\* pair is (Medium, Moderate) or (Low, Easy), never High or Complex.
C26_SeverityTable ==
  ret # NotCalled =>
    LET ids == Range(ret.issues)
        pair == <<ret.derived.severity, ret.derived.effort>>
    IN /\ ("missing-labels" \in ids /\ "missing-alt" \in ids) => pair = <<"Medium", "Moderate">>
       /\ ("missing-labels" \in ids /\ "missing-alt" \notin ids) => pair = <<"Medium", "Moderate">>
       /\ ("missing-labels" \notin ids /\ "missing-alt" \in ids) => pair = <<"Low", "Easy">>
       /\ ("missing-labels" \notin ids /\ "missing-alt" \notin ids) => pair = <<"Low", "Easy">>
       /\ pair \in {<<"Medium", "Moderate">>, <<"Low", "Easy">>}

\* both issues are present and the site is classified
C26_Witness ==
  /\ ret # NotCalled
  /\ {"missing-labels", "missing-alt"} \subseteq Range(ret.issues)
  /\ ret.derived = [severity |-> "Medium", effort |-> "Moderate"]

(***************************************************************************)
(* scoreUrl called on its own.                                              *)
(***************************************************************************)
ScoredPaths ==
  {<<>>, <<"about">>, <<"contact">>, <<"news", "a">>, <<"help", "form">>,
   <<"docs", "report.pdf">>, <<"a", "b", "c", "d", "e">>,
   <<"a", "b", "c", "d", "e", "f", "g">>, <<"a", "b", "c", "d", "e", "f", "payments">>}

ScoredUrls ==
  {Url(h, p, q, f) : h \in {"site", "other"}, p \in ScoredPaths,
                     q \in {"", "?q=1"}, f \in {"", "#top"}}
  \cup {uMailto, Rel(<<"about">>)}

InitScore ==
  /\ CrawlIdle
  /\ arg \in {[url |-> u] : u \in ScoredUrls}
  /\ ret = NotCalled
  /\ ServerIdle

CallScore ==
  /\ ret = NotCalled
  /\ ret' = [score |-> scoreUrl(arg.url, Root)]
  /\ UNCHANGED <<arg, crawlSide, serverSide>>

NextScore == CallScore

SpecScore == InitScore /\ [][NextScore]_vars

\* C27: scoreUrl equals this table: a listed file extension gives -5; otherwise
\* the path "/" without query gives 0; otherwise a fragment link or a mailto
\* link gives -3; a malformed URL gives -10; in every other case the score is
\* +3 for a keyword in the path, +2 for 2 to 4 segments, -1 for more than 6
\* segments, -1 for a query string, added up.
C27_ScoreTable ==
  ret # NotCalled =>
    LET u == arg.url
    IN ret.score =
         IF u.scheme = "" THEN 0 - 10
         ELSE IF HasFileExt(u) THEN 0 - 5
         ELSE IF u.segs = <<>> /\ u.search = "" THEN 0
         ELSE IF u.hash # "" \/ u.scheme = "mailto" THEN 0 - 3
         ELSE (IF \E i \in 1..Len(u.segs) : u.segs[i] \in KeywordSegs THEN 3 ELSE 0)
            + (IF Len(u.segs) >= 2 /\ Len(u.segs) <= 4 THEN 2 ELSE 0)
            - (IF Len(u.segs) > 6 THEN 1 ELSE 0)
            - (IF u.search # "" THEN 1 ELSE 0)

\* the URLs the crawl has handed to a fetch task or holds in the frontier
Attempted == visited \cup Range(scannedPages) \cup {u \in Urls : task[u] # "none"}

\* C28: every URL a crawl run dispatches has the hostname of the site root; a
\* link to another host is neither pushed onto the frontier nor fetched; and
\* every attempted URL but the root has no query string, no fragment and at
\* most 3 path segments.
C28_CrawlStaysOnSite ==
  /\ \A u \in Attempted \cup Range(FrontierUrls) : u.host = Root.host
  /\ \A u \in (Attempted \cup Range(FrontierUrls)) \ {Root} :
       u.search = "" /\ u.hash = "" /\ Len(u.segs) <= 3

\* the root page and /news/a have been fetched: between them they link to
\* another host, to a URL with a query, to one with a fragment and to one of
\* four segments
C28_Witness ==
  /\ site = "small"
  /\ task[Root] = "ok" /\ task[uNewsA] = "ok"
  /\ \E k \in 1..Len(Page(site, Root).links) : Page(site, Root).links[k] \in {uExt}
  /\ \E k \in 1..Len(Page(site, Root).links) : Page(site, Root).links[k] \in {uQuery}
  /\ \E k \in 1..Len(Page(site, uNewsA).links) : Page(site, uNewsA).links[k] \in {uDeep}
  /\ {uExt, uQuery, uFrag, uDeep} \cap (Attempted \cup Range(FrontierUrls)) = {}

\* request r is answered in this step
Answered(r) == reqs[r].pc # "done" /\ reqs'[r].pc = "done"

\* request r is answered in this step by a run that completed its analysis
RunCompleted(r) ==
  /\ Answered(r)
  /\ reqs[r].pc \in {"crawling", "fallback"}
  /\ reqs'[r].response.status = 200

\* the step writes the fingerprint store or adds a cache entry
WritesStores ==
  \/ fingerprintStore' # fingerprintStore
  \/ \E k \in NormUrls : cache'[k] # Absent /\ cache'[k] # cache[k]

\* C29: the cache and the fingerprint store are written only by a run that
\* completes its analysis: a request rejected as invalid, a run that fails
\* (no page from crawl and fallback, or an exception during the analysis) and
\* a request served from the cache leave the store as it is and add no cache
\* entry.
C29_WritesOnlyOnSuccess ==
  [][/\ WritesStores => \E r \in RequestIds : RunCompleted(r)
     /\ \A r \in RequestIds :
          (Answered(r) /\ (reqs'[r].response.status \in {400, 500} \/ reqs'[r].cached))
            => ~ WritesStores]_vars

\* one run for a URL completed, another request for the same URL failed, a
\* third thing did not happen: store and cache hold what the completed run wrote
C29_Witness ==
  \E r1, r2 \in RequestIds :
    /\ reqs[r1].pc = "done" /\ reqs[r1].response.status = 200 /\ ~ reqs[r1].cached
    /\ reqs[r2].pc = "done" /\ reqs[r2].response.status = 500
    /\ reqs[r2].url = reqs[r1].url
    /\ fingerprintStore[reqs[r1].url] = reqs[r1].response.currentFingerprint
    /\ cache[reqs[r1].url] # Absent
    /\ cache[reqs[r1].url].data = reqs[r1].response

\* C30: when runs for one normalized URL overlap, their updates of the
\* fingerprint store do not interleave: a run reads the previous fingerprint,
\* computes the diff and writes its own fingerprint in one step at its end; so
\* it reports the fingerprint of the run that finished last before it, its diff
\* is against that fingerprint, and its own fingerprint is in the store after
\* the step, with the entries of the other URLs untouched.
C30_StoreUpdateAtomic ==
  [][\A r \in RequestIds :
       RunCompleted(r) =>
         LET url == reqs[r].url
             resp == reqs'[r].response
             rs == RunsFor(url)
         IN /\ resp.previousFingerprint = fingerprintStore[url]
            /\ resp.previousFingerprint =
                 (IF rs = <<>> THEN Absent ELSE rs[Len(rs)].currentFingerprint)
            /\ resp.changes = ChangesOf(fingerprintStore[url], resp.currentFingerprint.metrics)
            /\ fingerprintStore' = [fingerprintStore EXCEPT ![url] = resp.currentFingerprint]]_vars

\* two runs for one URL overlapped (the second ended while the cache entry of
\* the first was fresh, so it had started before that entry was written) and
\* measured different counters; the second reports the first's fingerprint
C30_Witness ==
  \E url \in NormUrls :
    LET rs == RunsFor(url)
    IN /\ Len(rs) = 2
       /\ rs[2].generatedAt - rs[1].generatedAt < CACHE_TTL
       /\ rs[1].currentFingerprint.metrics # rs[2].currentFingerprint.metrics
       /\ rs[2].previousFingerprint = rs[1].currentFingerprint
       /\ fingerprintStore[url] = rs[2].currentFingerprint

====
